---- MODULE Spec2Model ----
(***************************************************************************)
(* The browser load generator of examples/load-testing/index.js: the      *)
(* configuration and its validation, the start/stop controls, the cycle   *)
(* timer and the deferred span completions.  Every handler of the page    *)
(* runs to completion on the single JavaScript thread, so each handler is *)
(* one atomic action.  Timer callbacks fire in any order that the delays  *)
(* of timers set in the same handler allow.                               *)
(* The collector stub of backend/main.go is a separate process: it serves *)
(* each request in a handler of its own and keeps no state between them.  *)
(***************************************************************************)
EXTENDS Integers, Sequences, FiniteSets, Bags

VARIABLES
    config,            \* index.js:122  {minInterval, maxInterval, batchSize}
    isRunning,         \* index.js:129
    intervalId,        \* index.js:130  handle of the last cycle timer, Null when none
    spanCount,         \* index.js:131
    activeSpans,       \* index.js:132
    activeSpansGauge,  \* index.js:113  cumulative value of the UpDownCounter
    timers,            \* the browser's pending scheduleNext timeouts
    spans,             \* bag of the generated requests whose completion timeout is pending
    out,               \* what the last handler emitted (logs, metrics, console)
    served             \* main.go:12  the last request the collector served, and its outcome

vars == <<config, isRunning, intervalId, spanCount, activeSpans,
          activeSpansGauge, timers, spans, out, served>>

-----------------------------------------------------------------------------
(* Bounds of the model *)

\* Math.random() returns 0, its least value, or 1 - 1/RandDenom, a value near 1
RandDenom == 4
\* a batch is generated only while at most MaxInFlight requests are in flight
\* and spanCount stays within MaxSpanCount
MaxInFlight == 2
MaxSpanCount == 3
\* the same two bounds of the long runs, in which the configuration is left alone
LongInFlight == 2
LongSpanCount == 10
MaxBodySize == 100     \* bytes in a request body
BatchInFlight == 3     \* requests in flight in runs with batches of three
BatchSpanCount == 4    \* requests generated since the start in those runs

-----------------------------------------------------------------------------
(* Program constants *)

Null == 0

\* main.go: the methods and statuses the collector names, and the routes it registers
MethodOptions == "OPTIONS"
MethodPost == "POST"
StatusOK == 200
StatusNoContent == 204
StatusNotFound == 404
StatusMethodNotAllowed == 405
NoStatus == 0
Routes == {"/v1/traces", "/v1/logs", "/v1/metrics"}

\* the requests that reach the collector
Methods == {MethodOptions, MethodPost, "GET", "PUT", "HEAD"}
Paths == Routes \cup {"/v1/profiles"}

statusCodes == <<200, 200, 200, 200, 201, 204, 400, 404, 500>>

SeverityINFO == "INFO"
SeverityERROR == "ERROR"

\* The numerators k of the values k/RandDenom that Math.random() returns.
Random == {0, RandDenom - 1}

\* Math.floor(Math.random() * n) for the draw k/RandDenom
FloorRandomTimes(k, n) == (k * n) \div RandDenom

randomElement(arr, k) == arr[FloorRandomTimes(k, Len(arr)) + 1]

randomDuration(k) == FloorRandomTimes(k, 500) + 50

\* Math.random() > 0.7
NestedSpanDrawn(k) == 10 * k > 7 * RandDenom

-----------------------------------------------------------------------------
(* parseInt(string, 10) and isNaN *)

DigitChars == <<"0", "1", "2", "3", "4", "5", "6", "7", "8", "9">>

IsDigit(c) == \E i \in 1 .. Len(DigitChars) : DigitChars[i] = c

DigitVal(c) == (CHOOSE i \in 1 .. Len(DigitChars) : DigitChars[i] = c) - 1

IsWhiteSpace(c) == c = " "

RECURSIVE TrimLeft(_)
TrimLeft(s) ==
    IF s # <<>> /\ IsWhiteSpace(Head(s)) THEN TrimLeft(Tail(s)) ELSE s

\* the value of the longest prefix of digits of s, read after the digits acc
RECURSIVE ParseDigits(_, _)
ParseDigits(s, acc) ==
    IF s # <<>> /\ IsDigit(Head(s))
    THEN ParseDigits(Tail(s), 10 * acc + DigitVal(Head(s)))
    ELSE acc

NaN == [nan |-> TRUE, val |-> 0]

Number(n) == [nan |-> FALSE, val |-> n]

isNaN(x) == x.nan

parseInt(str) ==
    LET s == TrimLeft(str)
        neg == s # <<>> /\ Head(s) = "-"
        signed == s # <<>> /\ Head(s) \in {"-", "+"}
        body == IF signed THEN Tail(s) ELSE s
    IN  IF body = <<>> \/ ~IsDigit(Head(body))
        THEN NaN
        ELSE Number(IF neg THEN 0 - ParseDigits(body, 0) ELSE ParseDigits(body, 0))

\* The texts the minInterval and maxInterval fields of the page may hold when
\* updateConfig reads them: "", "ms", "9.9", " 2000ms" and "+2000".
IntervalTexts ==
    { <<>>,
      <<"m", "s">>,
      <<"9", ".", "9">>,
      <<" ", "2", "0", "0", "0", "m", "s">>,
      <<"+", "2", "0", "0", "0">> }

\* The texts the batchSize field may hold: "x", "-1", "2" and "02".
BatchTexts ==
    { <<"x">>,
      <<"-", "1">>,
      <<"2">>,
      <<"0", "2">> }

\* A wider range of texts, for the configuration handler taken alone:
\* also "-2000", "10", "12px", "100", "500" and "1000",
WideIntervalTexts ==
    IntervalTexts \cup
    { <<"-", "2", "0", "0", "0">>,
      <<"1", "0">>,
      <<"1", "2", "p", "x">>,
      <<"1", "0", "0">>,
      <<"5", "0", "0">>,
      <<"1", "0", "0", "0">> }

\* and also "0", "1", "3", " 10" and "1e3".
WideBatchTexts ==
    BatchTexts \cup
    { <<"0">>,
      <<"1">>,
      <<"3">>,
      <<" ", "1", "0">>,
      <<"1", "e", "3">> }

\* what parseInt(document.getElementById(...)?.value, 10) yields: index.js:334-336
IntervalCandidates == { parseInt(t) : t \in IntervalTexts }

BatchCandidates == { parseInt(t) : t \in BatchTexts }

WideIntervalCandidates == { parseInt(t) : t \in WideIntervalTexts }

WideBatchCandidates == { parseInt(t) : t \in WideBatchTexts }

\* the fields as the user types them to set the shortest interval and batches of three
FastIntervalTexts == { <<"1", "0">> }

FastBatchTexts == { <<"3">> }

FastIntervalCandidates == { parseInt(t) : t \in FastIntervalTexts }

FastBatchCandidates == { parseInt(t) : t \in FastBatchTexts }

-----------------------------------------------------------------------------
(* What a handler emits *)

LogRecord(severity, body, n) == [severity |-> severity, body |-> body, n |-> n]

\* durations holds what requestDuration.record was given: only a completion records
Emitted(handler, logs, errors, traceId) ==
    [handler |-> handler, logs |-> logs, errors |-> errors, traceId |-> traceId,
     durations |-> <<>>]

-----------------------------------------------------------------------------
(* Initial state: index.js:122-132 *)

\* the exchange of one request: the request r and the response writer w
Exchange(method, path, size) ==
    [method |-> method, path |-> path, size |-> size,
     unread |-> size,            \* bytes of r.Body that nothing has read yet
     header |-> {},              \* w.Header(), as <<name, value>> pairs
     status |-> NoStatus,        \* the status line that was sent
     sent |-> {},                \* the headers that went out with the status line
     body |-> <<>>,              \* what was written after the status line
     unreadAtStatus |-> size,    \* bytes of r.Body unread when the status line went out
     superfluous |-> 0,          \* calls of WriteHeader after the status line went out
     logged |-> <<>>]            \* what log.Printf was given

Init ==
    /\ config = [minInterval |-> 100, maxInterval |-> 1000, batchSize |-> 1]
    /\ isRunning = FALSE
    /\ intervalId = Null
    /\ spanCount = 0
    /\ activeSpans = 0
    /\ activeSpansGauge = 0
    /\ timers = {}
    /\ spans = EmptyBag
    /\ out = Emitted("load", <<>>, 0, FALSE)
    /\ served = Exchange("", "", 0)

-----------------------------------------------------------------------------
(* updateConfig: index.js:333-346 *)

\* updateConfig as it would be if one invalid field made it ignore the update
updateConfigAllOrNothing(cfg, minInterval, maxInterval, batchSize) ==
    IF /\ ~isNaN(minInterval) /\ minInterval.val >= 10
       /\ ~isNaN(maxInterval) /\ maxInterval.val >= minInterval.val
       /\ ~isNaN(batchSize) /\ batchSize.val >= 1
    THEN [minInterval |-> minInterval.val, maxInterval |-> maxInterval.val,
          batchSize |-> batchSize.val]
    ELSE cfg

updateConfigResult(cfg, minInterval, maxInterval, batchSize) ==
    LET c1 == IF ~isNaN(minInterval) /\ minInterval.val >= 10
              THEN [cfg EXCEPT !.minInterval = minInterval.val] ELSE cfg
        c2 == IF ~isNaN(maxInterval) /\ maxInterval.val >= c1.minInterval
              THEN [c1 EXCEPT !.maxInterval = maxInterval.val] ELSE c1
        c3 == IF ~isNaN(batchSize) /\ batchSize.val >= 1
              THEN [c2 EXCEPT !.batchSize = batchSize.val] ELSE c2
    IN  c3

\* updateConfig, the fields holding texts that parse to the given candidates
updateConfig(intervals, batchSizes) ==
    \E minInterval \in intervals, maxInterval \in intervals, batchSize \in batchSizes :
        /\ config' = updateConfigResult(config, minInterval, maxInterval, batchSize)
        /\ out' = Emitted("updateConfig", <<>>, 0, FALSE)
        /\ UNCHANGED <<isRunning, intervalId, spanCount, activeSpans,
                       activeSpansGauge, timers, spans>>

-----------------------------------------------------------------------------
(* generateSpan: index.js:189-296.  It works on the counters, the gauge,  *)
(* the pending completions and the logs emitted so far by the handler     *)
(* that calls it; draw holds the outcomes of its Math.random() calls.     *)

Draws ==
    { [statusCode |-> randomElement(statusCodes, k1),
       duration |-> randomDuration(k2),
       nested |-> NestedSpanDrawn(k3)] : k1 \in Random, k2 \in Random, k3 \in Random }

\* generateSpan as it would be if it classified only codes above 400 as errors
generateSpanAbove400(m, draw) ==
    LET count == m.spanCount + 1
        span == [number |-> count,
                 statusCode |-> draw.statusCode,
                 isError |-> draw.statusCode > 400,
                 duration |-> draw.duration,
                 child |-> IF draw.nested THEN "open" ELSE "none"]
    IN  [spanCount |-> count,
         activeSpans |-> m.activeSpans + 1,
         activeSpansGauge |-> m.activeSpansGauge + 1,
         spans |-> m.spans (+) SetToBag({span}),
         logs |-> Append(m.logs, LogRecord(SeverityINFO, "Starting", count))]

generateSpan(m, draw) ==
    LET count == m.spanCount + 1
        span == [number |-> count,
                 statusCode |-> draw.statusCode,
                 isError |-> draw.statusCode >= 400,
                 duration |-> draw.duration,
                 child |-> IF draw.nested THEN "open" ELSE "none"]
    IN  [spanCount |-> count,
         activeSpans |-> m.activeSpans + 1,
         activeSpansGauge |-> m.activeSpansGauge + 1,
         spans |-> m.spans (+) SetToBag({span}),
         logs |-> Append(m.logs, LogRecord(SeverityINFO, "Starting", count))]

\* the for loop as it would be with i <= config.batchSize for its condition
RECURSIVE GenerateBatchInclusive(_, _)
GenerateBatchInclusive(n, ms) ==
    IF n < 0 THEN ms
    ELSE GenerateBatchInclusive(n - 1, { generateSpan(m, d) : m \in ms, d \in Draws })

\* the for loop of scheduleNext, index.js:320-322: every outcome of n calls
RECURSIVE GenerateBatch(_, _)
GenerateBatch(n, ms) ==
    IF n <= 0 THEN ms
    ELSE GenerateBatch(n - 1, { generateSpan(m, d) : m \in ms, d \in Draws })

-----------------------------------------------------------------------------
(* scheduleNext: index.js:316-328 *)

\* Math.floor(Math.random() * range) + config.minInterval
NextInterval(cfg, k) ==
    FloorRandomTimes(k, cfg.maxInterval - cfg.minInterval) + cfg.minInterval

\* setTimeout returns a handle that no pending timer has
FreshTimerId(pending) ==
    CHOOSE i \in 1 .. (Cardinality(pending) + 1) : \A t \in pending : t.id # i

\* scheduleNext called with isRunning true, from the handler named handler
\* that has set the counters to count and active, emitted logs and left pending
scheduleNext(handler, count, active, logs, pending) ==
    \E m \in GenerateBatch(config.batchSize,
                             {[spanCount |-> count,
                               activeSpans |-> active,
                               activeSpansGauge |-> activeSpansGauge,
                               spans |-> spans,
                               logs |-> logs]}) :
      \E k \in Random :
        LET id == FreshTimerId(pending)
        IN  /\ spanCount' = m.spanCount
            /\ activeSpans' = m.activeSpans
            /\ activeSpansGauge' = m.activeSpansGauge
            /\ spans' = m.spans
            /\ timers' = pending \cup {[id |-> id, delay |-> NextInterval(config, k)]}
            /\ intervalId' = id
            /\ out' = Emitted(handler, m.logs, 0, FALSE)

-----------------------------------------------------------------------------
(* startLoadTest: index.js:298-331 *)

\* startLoadTest as it would be if it left the first batch to a timer
startLoadTestDeferred ==
    IF isRunning
    THEN /\ out' = Emitted("startLoadTest", <<>>, 0, FALSE)
         /\ UNCHANGED <<config, isRunning, intervalId, spanCount, activeSpans,
                        activeSpansGauge, timers, spans>>
    ELSE \E k \in Random :
           LET id == FreshTimerId(timers)
           IN  /\ isRunning' = TRUE
               /\ spanCount' = 0
               /\ activeSpans' = 0
               /\ timers' = timers \cup {[id |-> id, delay |-> NextInterval(config, k)]}
               /\ intervalId' = id
               /\ out' = Emitted("startLoadTest",
                                 <<LogRecord(SeverityINFO, "Load test started", 0)>>,
                                 0, FALSE)
               /\ UNCHANGED <<config, activeSpansGauge, spans>>

\* startLoadTest as it would be if it took the gauge back to zero with activeSpans
startLoadTestResetsGauge ==
    IF isRunning
    THEN /\ out' = Emitted("startLoadTest", <<>>, 0, FALSE)
         /\ UNCHANGED <<config, isRunning, intervalId, spanCount, activeSpans,
                        activeSpansGauge, timers, spans>>
    ELSE /\ isRunning' = TRUE
         /\ \E m \in GenerateBatch(config.batchSize,
                                    {[spanCount |-> 0,
                                      activeSpans |-> 0,
                                      activeSpansGauge |-> 0,
                                      spans |-> spans,
                                      logs |-> <<LogRecord(SeverityINFO,
                                                           "Load test started", 0)>>]}) :
              \E k \in Random :
                LET id == FreshTimerId(timers)
                IN  /\ spanCount' = m.spanCount
                    /\ activeSpans' = m.activeSpans
                    /\ activeSpansGauge' = m.activeSpansGauge
                    /\ spans' = m.spans
                    /\ timers' = timers \cup {[id |-> id, delay |-> NextInterval(config, k)]}
                    /\ intervalId' = id
                    /\ out' = Emitted("startLoadTest", m.logs, 0, FALSE)
         /\ UNCHANGED config

\* startLoadTest as it would be without its isRunning guard
startLoadTestUnguarded ==
    /\ isRunning' = TRUE
    /\ scheduleNext("startLoadTest", 0, 0,
                    <<LogRecord(SeverityINFO, "Load test started", 0)>>, timers)
    /\ UNCHANGED config

startLoadTest ==
    IF isRunning
    THEN /\ out' = Emitted("startLoadTest", <<>>, 0, FALSE)
         /\ UNCHANGED <<config, isRunning, intervalId, spanCount, activeSpans,
                        activeSpansGauge, timers, spans>>
    ELSE /\ isRunning' = TRUE
         /\ scheduleNext("startLoadTest", 0, 0,
                         <<LogRecord(SeverityINFO, "Load test started", 0)>>, timers)
         /\ UNCHANGED config

-----------------------------------------------------------------------------
(* The cycle timer fires: the callback of index.js:327 *)

\* the callback as it would be were the cycle timer set with setInterval
cycleTimerRepeats ==
    \E t \in timers :
        IF ~isRunning
        THEN /\ out' = Emitted("scheduleNext", <<>>, 0, FALSE)
             /\ UNCHANGED <<config, isRunning, intervalId, spanCount, activeSpans,
                            activeSpansGauge, timers, spans>>
        ELSE /\ scheduleNext("scheduleNext", spanCount, activeSpans, <<>>, timers)
             /\ UNCHANGED <<config, isRunning>>

cycleTimerFires ==
    \E t \in timers :
        IF ~isRunning
        THEN /\ timers' = timers \ {t}
             /\ out' = Emitted("scheduleNext", <<>>, 0, FALSE)
             /\ UNCHANGED <<config, isRunning, intervalId, spanCount, activeSpans,
                            activeSpansGauge, spans>>
        ELSE /\ scheduleNext("scheduleNext", spanCount, activeSpans, <<>>, timers \ {t})
             /\ UNCHANGED <<config, isRunning>>

-----------------------------------------------------------------------------
(* stopLoadTest: index.js:348-367 *)

\* clearTimeout(id)
clearTimeout(pending, id) == { t \in pending : t.id # id }

\* stopLoadTest as it would be if it also ended the requests in flight
stopLoadTestEndsSpans ==
    IF ~isRunning
    THEN /\ out' = Emitted("stopLoadTest", <<>>, 0, FALSE)
         /\ UNCHANGED <<config, isRunning, intervalId, spanCount, activeSpans,
                        activeSpansGauge, timers, spans>>
    ELSE /\ isRunning' = FALSE
         /\ timers' = IF intervalId # Null THEN clearTimeout(timers, intervalId) ELSE timers
         /\ intervalId' = Null
         /\ spans' = EmptyBag
         /\ activeSpans' = 0
         /\ activeSpansGauge' = activeSpansGauge - BagCardinality(spans)
         /\ out' = Emitted("stopLoadTest",
                           <<LogRecord(SeverityINFO, "Load test stopped", spanCount)>>,
                           0, FALSE)
         /\ UNCHANGED <<config, spanCount>>

\* stopLoadTest as it would be if it reported activeSpans for the total
stopLoadTestActiveTotal ==
    IF ~isRunning
    THEN /\ out' = Emitted("stopLoadTest", <<>>, 0, FALSE)
         /\ UNCHANGED <<config, isRunning, intervalId, spanCount, activeSpans,
                        activeSpansGauge, timers, spans>>
    ELSE /\ isRunning' = FALSE
         /\ timers' = IF intervalId # Null THEN clearTimeout(timers, intervalId) ELSE timers
         /\ intervalId' = Null
         /\ out' = Emitted("stopLoadTest",
                           <<LogRecord(SeverityINFO, "Load test stopped", activeSpans)>>,
                           0, FALSE)
         /\ UNCHANGED <<config, spanCount, activeSpans, activeSpansGauge, spans>>

\* stopLoadTest as it would be without clearTimeout
stopLoadTestNoClear ==
    IF ~isRunning
    THEN /\ out' = Emitted("stopLoadTest", <<>>, 0, FALSE)
         /\ UNCHANGED <<config, isRunning, intervalId, spanCount, activeSpans,
                        activeSpansGauge, timers, spans>>
    ELSE /\ isRunning' = FALSE
         /\ intervalId' = Null
         /\ out' = Emitted("stopLoadTest",
                           <<LogRecord(SeverityINFO, "Load test stopped", spanCount)>>,
                           0, FALSE)
         /\ UNCHANGED <<config, spanCount, activeSpans, activeSpansGauge, timers, spans>>

stopLoadTest ==
    IF ~isRunning
    THEN /\ out' = Emitted("stopLoadTest", <<>>, 0, FALSE)
         /\ UNCHANGED <<config, isRunning, intervalId, spanCount, activeSpans,
                        activeSpansGauge, timers, spans>>
    ELSE /\ isRunning' = FALSE
         /\ timers' = IF intervalId # Null THEN clearTimeout(timers, intervalId) ELSE timers
         /\ intervalId' = Null
         /\ out' = Emitted("stopLoadTest",
                           <<LogRecord(SeverityINFO, "Load test stopped", spanCount)>>,
                           0, FALSE)
         /\ UNCHANGED <<config, spanCount, activeSpans, activeSpansGauge, spans>>

-----------------------------------------------------------------------------
(* The two timeouts a request sets: index.js:244-249 and 253-294 *)

\* the order as it would be were the nested span's delay duration * 2
NestedSpanTimeoutDoubled(sp) == 2 * sp.duration <= sp.duration

\* Both timeouts of a request are set in the same handler, the nested span's
\* with delay duration / 2 and first, the request's own with delay duration:
\* the browser runs the one with the smaller delay first, and the one set
\* first when the delays are equal.
NestedSpanTimeoutFirst(sp) == sp.duration <= 2 * sp.duration

\* the callback that ends the child span of the request sp
nestedSpanEnd(sp) ==
    /\ BagIn(sp, spans)
    /\ sp.child = "open"
    /\ spans' = (spans (-) SetToBag({sp})) (+) SetToBag({[sp EXCEPT !.child = "ended"]})
    /\ out' = Emitted("nestedSpanEnd", <<>>, 0, FALSE)
    /\ UNCHANGED <<config, isRunning, intervalId, spanCount, activeSpans,
                   activeSpansGauge, timers>>

nestedSpanEnds == \E sp \in BagToSet(spans) : nestedSpanEnd(sp)

\* the trace id is printed: index.js:290-293
TraceIdPrinted(sp, count) == count % 10 = 0

\* the callback that completes the request sp
spanEnd(sp) ==
    /\ BagIn(sp, spans)
    /\ sp.child = "open" => ~NestedSpanTimeoutFirst(sp)
    /\ spans' = spans (-) SetToBag({sp})
    /\ activeSpans' = activeSpans - 1
    /\ activeSpansGauge' = activeSpansGauge - 1
    /\ out' = [(IF sp.isError
                THEN Emitted("spanEnd",
                             <<LogRecord(SeverityERROR, "Error", sp.statusCode)>>,
                             1, TraceIdPrinted(sp, spanCount))
                ELSE Emitted("spanEnd",
                             <<LogRecord(SeverityINFO, "Completed", sp.duration)>>,
                             0, TraceIdPrinted(sp, spanCount)))
               EXCEPT !.durations = <<sp.duration>>]
    /\ UNCHANGED <<config, isRunning, intervalId, spanCount, timers>>

spanEnds == \E sp \in BagToSet(spans) : spanEnd(sp)

-----------------------------------------------------------------------------
(* The collector stub: backend/main.go:9-52 *)

HeaderSet(x, name, value) ==
    [x EXCEPT !.header = {h \in @ : h[1] # name} \cup {<<name, value>>}]

\* the first call sends the status line and the headers; a later call is ignored
WriteHeader(x, code) ==
    IF x.status # NoStatus
    THEN [x EXCEPT !.superfluous = @ + 1]
    ELSE [x EXCEPT !.status = code, !.sent = x.header, !.unreadAtStatus = x.unread]

\* Write sends the status line for 200 first if none has gone out
Write(x, data) ==
    [(IF x.status = NoStatus THEN WriteHeader(x, StatusOK) ELSE x)
        EXCEPT !.body = Append(@, data)]

\* net/http's Error: plain-text headers, the status line, the message and a newline
Error(x, error, code) ==
    Write(WriteHeader(HeaderSet(HeaderSet(x, "Content-Type", "text/plain; charset=utf-8"),
                                "X-Content-Type-Options", "nosniff"),
                      code),
          <<error, "\n">>)

\* io.Copy(io.Discard, r.Body): reads to the end of the body
Copy(x) == [x EXCEPT !.unread = 0]

\* the handler as it would be if it set the CORS headers after the method checks
registerEndpointCorsOnPost(x) ==
    IF x.method = MethodOptions
    THEN WriteHeader(x, StatusNoContent)
    ELSE IF x.method # MethodPost
         THEN Error(HeaderSet(x, "Allow", MethodPost),
                    "method not allowed", StatusMethodNotAllowed)
         ELSE LET cors == HeaderSet(HeaderSet(HeaderSet(HeaderSet(x,
                              "Access-Control-Allow-Origin", "*"),
                              "Access-Control-Allow-Methods", "POST, OPTIONS"),
                              "Access-Control-Allow-Headers", "*"),
                              "Access-Control-Max-Age", "86400")
                  n == cors.unread
                  drained == Copy(cors)
                  logged == [drained EXCEPT
                                 !.logged = <<[method |-> drained.method,
                                               path |-> drained.path,
                                               size_bytes |-> n]>>]
              IN  Write(WriteHeader(logged, StatusOK), "{}")

\* the handler that registerEndpoint installs: main.go:12-37
registerEndpoint(x) ==
    LET cors == HeaderSet(HeaderSet(HeaderSet(HeaderSet(x,
                    "Access-Control-Allow-Origin", "*"),
                    "Access-Control-Allow-Methods", "POST, OPTIONS"),
                    "Access-Control-Allow-Headers", "*"),
                    "Access-Control-Max-Age", "86400")
    IN  IF cors.method = MethodOptions
        THEN WriteHeader(cors, StatusNoContent)
        ELSE IF cors.method # MethodPost
             THEN Error(HeaderSet(cors, "Allow", MethodPost),
                        "method not allowed", StatusMethodNotAllowed)
             ELSE LET n == cors.unread
                      drained == Copy(cors)
                      logged == [drained EXCEPT
                                     !.logged = <<[method |-> drained.method,
                                                   path |-> drained.path,
                                                   size_bytes |-> n]>>]
                  IN  Write(WriteHeader(logged, StatusOK), "{}")

\* the mux: a registered path runs its handler, any other path is not found
ServeMux(x) ==
    IF x.path \in Routes
    THEN registerEndpoint(x)
    ELSE Error(x, "404 page not found", StatusNotFound)

\* the server takes one request and serves it
ServeHTTP ==
    /\ \E method \in Methods, path \in Paths, size \in 0 .. MaxBodySize :
           served' = ServeMux(Exchange(method, path, size))
    /\ UNCHANGED <<config, isRunning, intervalId, spanCount, activeSpans,
                   activeSpansGauge, timers, spans, out>>

-----------------------------------------------------------------------------
(* The bounds: a handler that generates a batch runs only when the batch  *)
(* keeps the requests in flight and spanCount within the bounds.          *)

BatchFits(count, maxInFlight, maxCount) ==
    /\ BagCardinality(spans) + config.batchSize <= maxInFlight
    /\ count + config.batchSize <= maxCount

StartFits(maxInFlight, maxCount) == isRunning \/ BatchFits(0, maxInFlight, maxCount)

CycleFits(maxInFlight, maxCount) == ~isRunning \/ BatchFits(spanCount, maxInFlight, maxCount)

\* The page: every handler, the configuration included.
Next ==
    \/ updateConfig(IntervalCandidates, BatchCandidates) /\ UNCHANGED served
    \/ StartFits(MaxInFlight, MaxSpanCount) /\ startLoadTest /\ UNCHANGED served
    \/ stopLoadTest /\ UNCHANGED served
    \/ CycleFits(MaxInFlight, MaxSpanCount) /\ cycleTimerFires /\ UNCHANGED served
    \/ nestedSpanEnds /\ UNCHANGED served
    \/ spanEnds /\ UNCHANGED served

Spec == Init /\ [][Next]_vars

\* Long runs under the initial configuration.
NextLong ==
    \/ StartFits(LongInFlight, LongSpanCount) /\ startLoadTest /\ UNCHANGED served
    \/ stopLoadTest /\ UNCHANGED served
    \/ CycleFits(LongInFlight, LongSpanCount) /\ cycleTimerFires /\ UNCHANGED served
    \/ nestedSpanEnds /\ UNCHANGED served
    \/ spanEnds /\ UNCHANGED served

SpecLong == Init /\ [][NextLong]_vars

\* The page with the browser running every timer callback that is due: the
\* callbacks of the requests in flight are timers that nothing clears.
SpecFair ==
    /\ Init
    /\ [][Next]_vars
    /\ WF_vars(nestedSpanEnds /\ UNCHANGED served)
    /\ WF_vars(spanEnds /\ UNCHANGED served)

\* The configuration handler alone, on the wider range of field texts.
NextConfig == updateConfig(WideIntervalCandidates, WideBatchCandidates) /\ UNCHANGED served

SpecConfig == Init /\ [][NextConfig]_vars

\* Runs in which the fastest configuration with batches of three is set.
NextBatch ==
    \/ updateConfig(FastIntervalCandidates, FastBatchCandidates) /\ UNCHANGED served
    \/ StartFits(BatchInFlight, BatchSpanCount) /\ startLoadTest /\ UNCHANGED served
    \/ stopLoadTest /\ UNCHANGED served
    \/ CycleFits(BatchInFlight, BatchSpanCount) /\ cycleTimerFires /\ UNCHANGED served
    \/ nestedSpanEnds /\ UNCHANGED served
    \/ spanEnds /\ UNCHANGED served

SpecBatch == Init /\ [][NextBatch]_vars

\* The collector alone.
NextCollector == ServeHTTP

SpecCollector == Init /\ [][NextCollector]_vars

-----------------------------------------------------------------------------
(* Properties *)

InFlight == BagCardinality(spans)

\* the handler of this step was startLoadTest and it started the test
Started(o) == o.handler = "startLoadTest" /\ o.logs # <<>>

\* the handler of this step was stopLoadTest and it stopped the test
Stopped(o) == o.handler = "stopLoadTest" /\ o.logs # <<>>

\* the handler of this step generated a batch and set the cycle timer
Scheduled(o) == o.handler \in {"startLoadTest", "scheduleNext"} /\ o.logs # <<>>

\* the request sp completes in this step
Completes(sp) == CopiesIn(sp, spans') < CopiesIn(sp, spans)

ErrorLogs(logs) == Cardinality({i \in 1 .. Len(logs) : logs[i].severity = SeverityERROR})

StoppedEvent(total) == LogRecord(SeverityINFO, "Load test stopped", total)

StartedEvent == LogRecord(SeverityINFO, "Load test started", 0)

\* C1: in every reachable state maxInterval >= minInterval, minInterval >= 10
\* and batchSize >= 1.
C1_ConfigInvariant ==
    /\ config.maxInterval >= config.minInterval
    /\ config.minInterval >= 10
    /\ config.batchSize >= 1

\* C2: activeSpans is never negative, whatever the interleaving of start, stop,
\* cycle timers and deferred completions.
C2_ActiveNeverNegative == activeSpans >= 0

\* C3 as stated: a stop() that directly follows the start() that started the
\* test finds zero requests generated and emits one "stopped" event with total 0.
C3_StopAfterStartTotalZero ==
    [][(Started(out) /\ out'.handler = "stopLoadTest")
         => /\ spanCount' = 0
            /\ out'.logs = <<StoppedEvent(0)>>]_vars

\* C3 as amended: a stop() that directly follows the start() that started the
\* test finds exactly batchSize requests generated, the batch start() itself
\* generates, and emits one "stopped" event whose total is batchSize.
C3_StopAfterStartTotalBatch ==
    [][(Started(out) /\ out'.handler = "stopLoadTest")
         => /\ spanCount' = config.batchSize
            /\ out'.logs = <<StoppedEvent(config.batchSize)>>]_vars

C3_Witness ==
    /\ Stopped(out)
    /\ config.batchSize = 2
    /\ spanCount = 2
    /\ out.logs = <<StoppedEvent(2)>>

\* C4: once stop() has stopped the test, running is false, no cycle timer is
\* pending, and until the next start() no cycle runs and no request is generated.
C4_StopCancelsCycle ==
    /\ [](~isRunning => (timers = {} /\ intervalId = Null))
    /\ [][~isRunning
            => /\ isRunning' => Started(out')
               /\ ~isRunning' => /\ out'.handler # "scheduleNext"
                                 /\ spanCount' = spanCount
                                 /\ BagCardinality(spans') <= BagCardinality(spans)
                                 /\ \A i \in 1 .. Len(out'.logs) :
                                      out'.logs[i].body # "Starting"]_vars

C4_Witness ==
    /\ Stopped(out)
    /\ ~isRunning
    /\ spanCount > config.batchSize
    /\ InFlight > 0
    /\ timers = {}

\* C5: a completing request prints the trace id exactly when its own sequence
\* number is a multiple of 10.
C5_TraceIdOnOwnTenth ==
    [][out'.handler = "spanEnd"
         => \A sp \in BagToSet(spans) :
              Completes(sp) => (out'.traceId <=> sp.number % 10 = 0)]_vars

\* C6: in every reachable state activeSpans equals the number of requests
\* generated and not yet completed.
C6_ActiveEqualsInFlight == activeSpans = InFlight

\* C7: start() while running changes nothing, emits no event and generates no
\* request; start() while stopped sets running, resets both counters to zero
\* before the first batch counts in them, emits one "started" event and begins
\* the cycle with one pending cycle timer.
C7_StartNoOpOrStart ==
    [][out'.handler = "startLoadTest"
         => IF isRunning
            THEN /\ UNCHANGED <<config, isRunning, intervalId, spanCount, activeSpans,
                                activeSpansGauge, timers, spans>>
                 /\ out'.logs = <<>>
            ELSE /\ isRunning'
                 /\ UNCHANGED config
                 /\ spanCount' = config.batchSize
                 /\ activeSpans' = config.batchSize
                 /\ BagCardinality(spans') = BagCardinality(spans) + config.batchSize
                 /\ Head(out'.logs) = StartedEvent
                 /\ \A i \in 2 .. Len(out'.logs) : out'.logs[i].body = "Starting"
                 /\ Cardinality(timers') = 1
                 /\ \A t \in timers' : t.id = intervalId']_vars

C7_Witness ==
    /\ out.handler = "startLoadTest"
    /\ out.logs = <<>>
    /\ isRunning
    /\ spanCount > 0
    /\ timers # {}

\* C8: the completion of a request with status >= 400 makes exactly one
\* error-counter increment and one error-level log, the completion of any other
\* request makes none, and no other handler makes any; so the error counter
\* counts the completed requests with status >= 400.
C8_ErrorsOnlyForErrorStatus ==
    [][IF out'.handler = "spanEnd"
       THEN /\ \E sp \in BagToSet(spans) : Completes(sp)
            /\ \A sp \in BagToSet(spans) :
                 Completes(sp)
                   => LET n == IF sp.statusCode >= 400 THEN 1 ELSE 0
                      IN  out'.errors = n /\ ErrorLogs(out'.logs) = n
       ELSE out'.errors = 0 /\ ErrorLogs(out'.logs) = 0]_vars

C8_Witness ==
    /\ out.handler = "spanEnd"
    /\ out.errors = 1
    /\ ErrorLogs(out.logs) = 1

\* the validity predicates of the three fields, as the contract states them
ValidMinInterval(x) == ~isNaN(x) /\ x.val >= 10

ValidMaxInterval(x, currentMin) == ~isNaN(x) /\ x.val >= currentMin

ValidBatchSize(x) == ~isNaN(x) /\ x.val >= 1

\* C9: updateConfig applies each field exactly when that field's candidate is
\* valid (for maxInterval against the minInterval stored when it is validated),
\* leaves an invalid field's value unchanged whatever the other fields are, and
\* never fails or reports anything.
C9_FieldwiseValidation ==
    /\ [](\A a \in WideIntervalCandidates, b \in WideIntervalCandidates,
             c \in WideBatchCandidates :
            LET new == updateConfigResult(config, a, b, c)
            IN  /\ new.minInterval = IF ValidMinInterval(a) THEN a.val
                                     ELSE config.minInterval
                /\ new.maxInterval = IF ValidMaxInterval(b, new.minInterval) THEN b.val
                                     ELSE config.maxInterval
                /\ new.batchSize = IF ValidBatchSize(c) THEN c.val
                                   ELSE config.batchSize)
    /\ [](ENABLED NextConfig)
    /\ [][out'.handler = "updateConfig"
            => /\ out'.logs = <<>>
               /\ out'.errors = 0
               /\ \E a \in WideIntervalCandidates, b \in WideIntervalCandidates,
                     c \in WideBatchCandidates :
                    /\ config'.minInterval = IF ValidMinInterval(a) THEN a.val
                                             ELSE config.minInterval
                    /\ config'.maxInterval =
                         IF ValidMaxInterval(b, config'.minInterval) THEN b.val
                         ELSE config.maxInterval
                    /\ config'.batchSize = IF ValidBatchSize(c) THEN c.val
                                           ELSE config.batchSize]_vars

C9_Witness ==
    /\ out.handler = "updateConfig"
    /\ config.minInterval = 2000
    /\ config.maxInterval = 1000
    /\ config.batchSize = 2

\* C10: the delay of every cycle timer lies between the minInterval and the
\* maxInterval of the moment it is set.
C10_DelayWithinInterval ==
    Scheduled(out)
      => \A t \in timers :
           t.id = intervalId
             => config.minInterval <= t.delay /\ t.delay <= config.maxInterval


\* requests that the handler of this step announced as generated
StartingLogs(logs) == Cardinality({i \in 1 .. Len(logs) : logs[i].body = "Starting"})

\* the shortest interval on both ends and batches of three
FastConfig == [minInterval |-> 10, maxInterval |-> 10, batchSize |-> 3]

\* C11: every cycle that runs while the test is running, the first one that
\* start() runs included, generates exactly config.batchSize requests, with
\* the batchSize that is in effect when the cycle runs: the total and the
\* requests in flight grow by it and that many requests are announced.  After
\* start() under minInterval = 10, maxInterval = 10, batchSize = 3 the first
\* batch is three requests.
C11_BatchPerCycle ==
    [][(Started(out') \/ (out'.handler = "scheduleNext" /\ isRunning)) =>
          /\ spanCount' = (IF out'.handler = "startLoadTest" THEN 0 ELSE spanCount)
                            + config.batchSize
          /\ BagCardinality(spans') = BagCardinality(spans) + config.batchSize
          /\ activeSpansGauge' = activeSpansGauge + config.batchSize
          /\ StartingLogs(out'.logs) = config.batchSize
          /\ (Started(out') /\ config = FastConfig =>
                 spanCount' = 3 /\ BagCardinality(spans') = BagCardinality(spans) + 3)]_vars

C11_Witness ==
    /\ Started(out)
    /\ config = FastConfig
    /\ spanCount = 3
    /\ InFlight = 3
    /\ StartingLogs(out.logs) = 3

\* C12: while the test is running the total never decreases and grows by
\* exactly the number of requests the step generates; the start that starts
\* the test counts from zero; the "stopped" event of stop() carries the total,
\* which is therefore the number of requests generated since the matching
\* start(); and while the test is stopped, completions included, the total
\* does not change.
C12_TotalCountsGenerated ==
    [][/\ (isRunning /\ isRunning') =>
              spanCount' >= spanCount /\ spanCount' = spanCount + StartingLogs(out'.logs)
       /\ Started(out') => spanCount' = StartingLogs(out'.logs)
       /\ Stopped(out') => spanCount' = spanCount /\ out'.logs = <<StoppedEvent(spanCount)>>
       /\ (~isRunning /\ ~isRunning') => spanCount' = spanCount]_vars

\* a completion fired after stop() reported a total of two or more
C12_Witness ==
    /\ ~isRunning
    /\ out.handler = "spanEnd"
    /\ spanCount >= 2
    /\ InFlight < spanCount

Served == served.status # NoStatus /\ served.path \in Routes

\* C14: for every request to /v1/traces, /v1/logs or /v1/metrics the request
\* body is fully consumed when the handler finishes, whatever the method and
\* the body size; for POST it is consumed before the response is written.
C14_BodyAlwaysDrained ==
    Served =>
        /\ served.unread = 0
        /\ served.method = MethodPost => served.unreadAtStatus = 0

\* the names of the headers that went out with the response
SentNames == {h[1] : h \in served.sent}

AccessControlNames ==
    {"Access-Control-Allow-Origin", "Access-Control-Allow-Methods",
     "Access-Control-Allow-Headers", "Access-Control-Max-Age"}

\* C15: every request to one of the three routes gets exactly one response,
\* which its method alone determines: OPTIONS gets 204 with an empty body,
\* POST gets 200 with the body {}, any other method gets 405 with the header
\* Allow: POST; and the four Access-Control-* headers are on every one of
\* these responses, the 405 included.
C15_ResponseByMethod ==
    Served =>
        /\ served.superfluous = 0
        /\ AccessControlNames \subseteq SentNames
        /\ IF served.method = "OPTIONS"
           THEN served.status = 204 /\ served.body = <<>>
           ELSE IF served.method = "POST"
                THEN served.status = 200 /\ served.body = <<"{}">>
                ELSE served.status = 405 /\ <<"Allow", "POST">> \in served.sent

\* a request with another method was rejected
C15_Witness ==
    /\ Served
    /\ served.method = "PUT"
    /\ served.size > 0
    /\ served.status = 405
    /\ <<"Allow", "POST">> \in served.sent
    /\ AccessControlNames \subseteq SentNames

\* C16: the primary span of a request never ends in the step that generates
\* the request: a step that generates requests completes none and leaves
\* each request it generated in flight, and a completion is a callback of
\* its own that generates nothing; and the primary span of a request that
\* opened a child span ends only after the child span has ended, in an
\* earlier callback.
C16_CompletionDeferredChildFirst ==
    [][/\ StartingLogs(out'.logs) > 0 =>
              /\ out'.handler \in {"startLoadTest", "scheduleNext"}
              /\ out'.durations = <<>>
              /\ \A sp \in BagToSet(spans) : ~Completes(sp)
              /\ BagCardinality(spans') = BagCardinality(spans) + StartingLogs(out'.logs)
       /\ out'.handler = "spanEnd" =>
              /\ StartingLogs(out'.logs) = 0
              /\ spanCount' = spanCount
              /\ \A sp \in BagToSet(spans) : Completes(sp) => sp.child # "open"
       /\ out'.handler = "nestedSpanEnd" =>
              /\ BagCardinality(spans') = BagCardinality(spans)
              /\ \E sp \in BagToSet(spans) :
                     /\ sp.child = "open"
                     /\ Completes(sp)
                     /\ BagIn([sp EXCEPT !.child = "ended"], spans')]_vars

\* the child span of a request has ended and the request is still in flight
C16_Witness ==
    /\ out.handler = "nestedSpanEnd"
    /\ \E sp \in BagToSet(spans) : sp.child = "ended"

\* C17: in every reachable state at most one cycle timer is pending, one is
\* pending only while the test is running, and it is the one intervalId
\* holds: no sequence of start(), stop(), updateConfig and timer callbacks
\* leaves two chains of cycles.
C17_OneCycleTimer ==
    /\ Cardinality(timers) <= 1
    /\ timers # {} => isRunning
    /\ \A t \in timers : t.id = intervalId

\* the test was started again, with requests of the earlier run in flight
C17_Witness ==
    /\ Started(out)
    /\ InFlight > spanCount
    /\ Cardinality(timers) = 1

\* C18: in every reachable state the sum of the additions to the active
\* spans gauge is the number of requests generated and not yet completed,
\* and it is never negative, also after stop() and start() with requests in
\* flight: start() resets activeSpans, not the gauge.
C18_GaugeEqualsInFlight ==
    /\ activeSpansGauge = InFlight
    /\ activeSpansGauge >= 0

\* after a restart with a request in flight activeSpans has lost count, the gauge has not
C18_Witness ==
    /\ isRunning
    /\ InFlight = 2
    /\ activeSpansGauge = 2
    /\ activeSpans = 1

====
